---------------------------- MODULE Spec2Model ----------------------------
(***************************************************************************)
(* The 'posts' application of hw05_final: the relational data model        *)
(* (posts/models.py) and the request handlers that write to it             *)
(* (posts/views.py).                                                       *)
(*                                                                         *)
(* Tables are modelled by their rows.  Post and Comment rows carry their   *)
(* AutoField id; Follow rows are read only through (user, author), so the  *)
(* Follow table is a bag of (user, author) pairs: two rows for one pair    *)
(* are two copies in the bag.  Users are named by their unique username,   *)
(* groups by their unique slug.                                            *)
(***************************************************************************)
EXTENDS Integers, Sequences, FiniteSets, Bags, TLC

\* ------------------------------------------------------------- bounds
MaxPosts    == 2      \* Post ids handed out
MaxComments == 2      \* Comment ids handed out
NumWorkers  == 2      \* requests in flight at once (SpecFollow)
MaxFeed     == 21     \* posts in the tables the listings start from (SpecFeed)
MaxTime     == 25     \* latest clock reading of a listing request

\* ------------------------------------------------------------- constants
PageSize     == 10    \* Paginator(post_list, 10)
CacheTimeout == 20    \* cache_page(20, ...)

\* ------------------------------------------------------------- inputs
Users      == {"u1", "u2", "u3"}
RaceUsers  == {"u1", "u2"}
Anonymous  == "anonymous"          \* request.user of a client not logged in
NoUser     == "nobody"             \* a username no User has
Groups     == {"g1", "g2"}
NoGroup    == "none"               \* group = NULL
NoImage    == "none"               \* image = NULL
Images     == {NoImage, "img"}
EmptyText  == ""
Texts      == {"a", "b"}
Workers    == 1..NumWorkers

VARIABLES
    users,          \* User table: the usernames
    groups,         \* Group table: the slugs
    posts,          \* Post table: rows [id, text, pub_date, author, group, image]
    comments,       \* Comment table: rows [id, post, author, text, created]
    follows,        \* Follow table: bag of rows [user, author]
    nextPostId,     \* Post.id sequence
    nextCommentId,  \* Comment.id sequence
    now,            \* the latest clock reading
    last,           \* the last request served and its response
    pre,            \* the tables as they were before that request
    reqs,           \* the requests in flight, one per worker (SpecFollow)
    cache,          \* the page cache of index: URL query -> the response stored
    view            \* the last listing request served and its response

db   == <<users, groups, posts, comments, follows>>
vars == <<users, groups, posts, comments, follows, nextPostId, nextCommentId,
          now, last, pre, reqs, cache, view>>

\* ------------------------------------------------------------- queries

FollowRow(u, a) == [user |-> u, author |-> a]

\* Follow.objects.filter(user=u, author=a).exists()
FollowExists(F, u, a) == CopiesIn(FollowRow(u, a), F) > 0

\* unique_together = ('author', 'user'): the INSERT of a second row fails
NoUniqueTogether(F, u, a) == FALSE
UniqueViolation(F, u, a) == CopiesIn(FollowRow(u, a), F) > 0

\* the condition under which profile_follow creates the row
CreateWhenNotFollowing(exists, u, a) == ~exists
ShouldCreate(exists, u, a) == ~exists /\ a # u

\* Follow.objects.create(user=u, author=a), the constraint already passed
InsertFollow(F, u, a) == F (+) SetToBag({FollowRow(u, a)})

\* Follow.objects.filter(user=u, author=a).delete()
DeleteFollowsOfUser(F, u, a) ==
    [r \in {x \in BagToSet(F) : x.user # u} |-> F[r]]
DeleteFollows(F, u, a) ==
    [r \in {x \in BagToSet(F) : ~(x.user = u /\ x.author = a)} |-> F[r]]

\* ------------------------------------------------------------- responses
Idle == [pc |-> "idle", op |-> "none", user |-> Anonymous, username |-> NoUser]

Snapshot == [users |-> users, groups |-> groups, posts |-> posts,
             comments |-> comments, follows |-> follows]

NoRequest == [op |-> "none", user |-> Anonymous, username |-> NoUser, post_id |-> 0,
              text |-> EmptyText, group |-> NoGroup, image |-> NoImage,
              status |-> "none", errors |-> FALSE]

NoView == [feed |-> "none"]

Init ==
    /\ users = Users
    /\ groups = Groups
    /\ posts = {}
    /\ comments = {}
    /\ follows = EmptyBag
    /\ nextPostId = 1
    /\ nextCommentId = 1
    /\ now = 0
    /\ last = NoRequest
    /\ pre = Snapshot
    /\ reqs = [w \in Workers |-> Idle]
    /\ cache = <<>>
    /\ view = NoView

\* ------------------------------------------------------------- forms and cascades

\* PostForm.is_valid(): text is required, group is optional and must be a Group
PostFormValid(text, group) == text # EmptyText /\ group \in groups \cup {NoGroup}

\* CommentForm.is_valid(): text is required
CommentFormValid(text) == text # EmptyText

\* form.save(commit=False); comment.author = request.user; comment.post = post
NewCommentByPostAuthor(id, post, u, text, t) ==
    [id |-> id, post |-> post.id, author |-> post.author, text |-> text, created |-> t]
NewComment(id, post, u, text, t) ==
    [id |-> id, post |-> post.id, author |-> u, text |-> text, created |-> t]

\* new_post_form.save(commit=False); post.author = request.user.  The form has
\* the fields text, group and image: an author value in the data is not read,
\* and no files are bound, so no image is stored.
NewPostByFormAuthor(id, u, author, text, group, t) ==
    [id |-> id, text |-> text, pub_date |-> t, author |-> author, group |-> group,
     image |-> NoImage]
NewPost(id, u, author, text, group, t) ==
    [id |-> id, text |-> text, pub_date |-> t, author |-> u, group |-> group,
     image |-> NoImage]

\* form.save() of post_edit: text, group and, when a file is sent, image
EditedPostNewDate(p, text, group, image) ==
    [p EXCEPT !.text = text, !.group = group, !.pub_date = now + 1,
              !.image = IF image = NoImage THEN p.image ELSE image]
EditedPost(p, text, group, image) ==
    [p EXCEPT !.text = text, !.group = group,
              !.image = IF image = NoImage THEN p.image ELSE image]

\* request.user.username != username
AnyPath(u, username) == FALSE
NotOwnPath(u, username) == u # username

\* get_object_or_404(Post, id=post_id, author__username=username)
PostsFound(username, post_id) ==
    {p \in posts : p.id = post_id /\ p.author = username}

\* on_delete=models.CASCADE of Post.author
PostsAfterUserDelete(x) == {p \in posts : p.author # x}

\* on_delete=models.CASCADE of Comment.author and of Comment.post
CommentsCascadeOnAuthorOnly(x) == {c \in comments : c.author # x}
CommentsAfterUserDelete(x) ==
    {c \in comments : c.author # x /\ c.post \in {p.id : p \in PostsAfterUserDelete(x)}}

\* on_delete=models.CASCADE of Follow.author and of Follow.user
FollowsCascadeOnUserOnly(x) ==
    [r \in {y \in BagToSet(follows) : y.user # x} |-> follows[r]]
FollowsAfterUserDelete(x) ==
    [r \in {y \in BagToSet(follows) : y.user # x /\ y.author # x} |-> follows[r]]

\* on_delete=models.SET_NULL of Post.group
PostsCascadeOnGroup(g) == {p \in posts : p.group # g}
PostsAfterGroupDelete(g) ==
    {IF p.group = g THEN [p EXCEPT !.group = NoGroup] ELSE p : p \in posts}

Request(op, u, name, id, text, group, image, st, err) ==
    [op |-> op, user |-> u, username |-> name, post_id |-> id, text |-> text,
     group |-> group, image |-> image, status |-> st, errors |-> err]

\* what @login_required answers, if it answers: the redirect to the login page
\* (request.user is the session's user if that User exists, else anonymous)
AllowAnonymous(u) == FALSE
LoginRequired(u) == u \notin users

Served(r) == last' = r /\ pre' = Snapshot /\ UNCHANGED <<reqs, cache, view>>

\* ------------------------------------------------------------- the feeds

\* Post.objects.all()
IndexPosts == posts

\* Post.objects.filter(author__username=username)
ProfilePosts(username) == {p \in posts : p.author = username}

\* Follow.objects.filter(user=request.user)
Followings(u) == [r \in {x \in BagToSet(follows) : x.user = u} |-> follows[r]]

RECURSIVE SumCopies(_, _)
SumCopies(B, S) ==
    IF S = {} THEN 0
    ELSE LET r == CHOOSE x \in S : TRUE IN B[r] + SumCopies(B, S \ {r})

\* author__following__in=followings: the rows of the join of a post with the
\* Follow rows whose author is the post's author, kept when in followings
FollowerJoin(p, u) ==
    SumCopies(Followings(u), {r \in BagToSet(Followings(u)) : r.user = p.author})
FollowingJoin(p, u) ==
    SumCopies(Followings(u), {r \in BagToSet(Followings(u)) : r.author = p.author})

\* Post.objects.filter(author__following__in=followings): a post once per row
\* of the join
FollowIndexPosts(u) ==
    [p \in {q \in posts : FollowingJoin(q, u) > 0} |-> FollowingJoin(p, u)]

\* group.posts.all()
GroupPosts(slug) == {p \in posts : p.group = slug}

\* ordering = ('-pub_date',)
RECURSIVE OldestFirst(_)
OldestFirst(S) ==
    IF S = {} THEN <<>>
    ELSE LET p == CHOOSE x \in S : \A y \in S : x.pub_date <= y.pub_date
         IN <<p>> \o OldestFirst(S \ {p})
RECURSIVE NewestFirst(_)
NewestFirst(S) ==
    IF S = {} THEN <<>>
    ELSE LET p == CHOOSE x \in S : \A y \in S : y.pub_date <= x.pub_date
         IN <<p>> \o NewestFirst(S \ {p})

\* the rows of a query with a join, ordered: a post once per row
RECURSIVE Repeat(_, _)
Repeat(x, n) == IF n = 0 THEN <<>> ELSE <<x>> \o Repeat(x, n - 1)
RECURSIVE Expand(_, _)
Expand(list, B) ==
    IF list = <<>> THEN <<>>
    ELSE Repeat(Head(list), B[Head(list)]) \o Expand(Tail(list), B)
NewestFirstRows(B) == Expand(NewestFirst(BagToSet(B)), B)

\* ------------------------------------------------------------- Paginator

\* request.GET.get('page'): absent, not a number, or a number
AbsentPage == [kind |-> "absent", n |-> 0]
TextPage   == [kind |-> "text", n |-> 0]
IntPage(n) == [kind |-> "int", n |-> n]

\* Paginator.num_pages, with allow_empty_first_page
NumPages(list) ==
    IF Len(list) = 0 THEN 1 ELSE (Len(list) + PageSize - 1) \div PageSize

\* Paginator.validate_number
ValidateNumber(list, q) ==
    IF q.kind # "int" THEN [error |-> "PageNotAnInteger", number |-> 0]
    ELSE IF q.n < 1 THEN [error |-> "EmptyPage", number |-> 0]
    ELSE IF q.n > NumPages(list) THEN [error |-> "EmptyPage", number |-> 0]
    ELSE [error |-> "none", number |-> q.n]

\* Paginator.get_page: page 1 when not a number, the last page when out of range
GetPageNumber(list, q) ==
    LET v == ValidateNumber(list, q) IN
    IF v.error = "PageNotAnInteger" THEN 1
    ELSE IF v.error = "EmptyPage" THEN NumPages(list)
    ELSE v.number

\* Paginator.page: object_list[bottom:top]
PageSliceFromNext(list, number) ==
    LET bottom == number * PageSize
        top    == IF bottom + PageSize >= Len(list) THEN Len(list) ELSE bottom + PageSize
    IN SubSeq(list, bottom + 1, top)
PageSlice(list, number) ==
    LET bottom == (number - 1) * PageSize
        top    == IF bottom + PageSize >= Len(list) THEN Len(list) ELSE bottom + PageSize
    IN SubSeq(list, bottom + 1, top)

\* render(request, template, {'page': page, 'paginator': paginator, ...})
Listing(list, q) ==
    [status |-> "ok", number |-> GetPageNumber(list, q), num_pages |-> NumPages(list),
     count |-> Len(list), object_list |-> PageSlice(list, GetPageNumber(list, q))]

Refused(st) ==
    [status |-> st, number |-> 0, num_pages |-> 0, count |-> 0, object_list |-> <<>>]

\* the responses of the four listings, as computed from the tables
IndexResponse(q) == Listing(NewestFirst(IndexPosts), q)

GroupPostsResponse(slug, q) ==
    IF slug \notin groups THEN Refused("not_found")
    ELSE Listing(NewestFirst(GroupPosts(slug)), q)

ProfileResponse(username, q) ==
    IF username \notin users THEN Refused("not_found")
    ELSE Listing(NewestFirst(ProfilePosts(username)), q)

FollowIndexResponse(u, q) ==
    IF LoginRequired(u) THEN Refused("redirect_login")
    ELSE Listing(NewestFirstRows(FollowIndexPosts(u)), q)

\* ------------------------------------------------------------- the handlers, one request at a time

\* a listing request: feed, requester, slug or username, page query, response,
\* whether the profile is followed, and, for index, which request was served
\* before it and the id of the post that one created
Before(feed) ==
    IF feed = "index" THEN [op |-> last.op, post_id |-> last.post_id, status |-> last.status]
    ELSE [op |-> "none", post_id |-> 0, status |-> "none"]

Viewed(feed, u, arg, q, r, following) ==
    /\ view' = [feed |-> feed, user |-> u, arg |-> arg, query |-> q, response |-> r,
                following |-> following, after |-> Before(feed)]
    /\ last' = Request(feed, u, arg, 0, EmptyText, NoGroup, NoImage, r.status, FALSE)
    /\ pre' = Snapshot
    /\ UNCHANGED <<db, nextPostId, nextCommentId, reqs>>

\* the cache entries still alive at clock reading t
AliveForever(t) == cache
Alive(t) ==
    [k \in {x \in DOMAIN cache : t < cache[x].stored + CacheTimeout} |-> cache[k]]

Store(C, k, e) == [x \in DOMAIN C \cup {k} |-> IF x = k THEN e ELSE C[x]]

\* @cache_page(20, key_prefix='index_page'): the response stored for the URL
\* with its query is returned while it is younger than 20 seconds; otherwise
\* the view runs and its response is stored
index(u, q, t) ==
    /\ t <= MaxTime
    /\ now' = t
    /\ IF q \in DOMAIN Alive(t)
       THEN /\ Viewed("index", u, NoUser, q, Alive(t)[q].response, FALSE)
            /\ cache' = Alive(t)
       ELSE /\ Viewed("index", u, NoUser, q, IndexResponse(q), FALSE)
            /\ cache' = Store(Alive(t), q, [stored |-> t, response |-> IndexResponse(q)])

group_posts(u, slug, q) ==
    /\ Viewed("group_posts", u, slug, q, GroupPostsResponse(slug, q), FALSE)
    /\ UNCHANGED <<now, cache>>

profile(u, username, q) ==
    /\ Viewed("profile", u, username, q, ProfileResponse(username, q),
              u \in users /\ username \in users /\ FollowExists(follows, u, username))
    /\ UNCHANGED <<now, cache>>

follow_index(u, q) ==
    /\ Viewed("follow_index", u, NoUser, q, FollowIndexResponse(u, q), FALSE)
    /\ UNCHANGED <<now, cache>>


new_post(u, author, text, group, t) ==
    /\ nextPostId <= MaxPosts
    /\ IF LoginRequired(u)
       THEN /\ Served(Request("new_post", u, author, 0, text, group, NoImage,
                              "redirect_login", FALSE))
            /\ UNCHANGED <<db, nextPostId, nextCommentId, now>>
       ELSE IF ~PostFormValid(text, group)
       THEN /\ Served(Request("new_post", u, author, 0, text, group, NoImage,
                              "render_form", TRUE))
            /\ UNCHANGED <<db, nextPostId, nextCommentId, now>>
       ELSE /\ posts' = posts \cup {NewPost(nextPostId, u, author, text, group, t)}
            /\ nextPostId' = nextPostId + 1
            /\ now' = t
            /\ Served(Request("new_post", u, author, nextPostId, text, group, NoImage,
                              "redirect_index", FALSE))
            /\ UNCHANGED <<users, groups, comments, follows, nextCommentId>>

post_edit(u, username, post_id, text, group, image) ==
    IF LoginRequired(u)
    THEN /\ Served(Request("post_edit", u, username, post_id, text, group, image,
                           "redirect_login", FALSE))
         /\ UNCHANGED <<db, nextPostId, nextCommentId, now>>
    ELSE IF NotOwnPath(u, username)
    THEN /\ Served(Request("post_edit", u, username, post_id, text, group, image,
                           "redirect_post", FALSE))
         /\ UNCHANGED <<db, nextPostId, nextCommentId, now>>
    ELSE IF PostsFound(username, post_id) = {}
    THEN /\ Served(Request("post_edit", u, username, post_id, text, group, image,
                           "not_found", FALSE))
         /\ UNCHANGED <<db, nextPostId, nextCommentId, now>>
    ELSE IF ~PostFormValid(text, group)
    THEN /\ Served(Request("post_edit", u, username, post_id, text, group, image,
                           "render_form", TRUE))
         /\ UNCHANGED <<db, nextPostId, nextCommentId, now>>
    ELSE /\ posts' = {IF p \in PostsFound(username, post_id)
                      THEN EditedPost(p, text, group, image)
                      ELSE p : p \in posts}
         /\ Served(Request("post_edit", u, username, post_id, text, group, image,
                           "redirect_post", FALSE))
         /\ UNCHANGED <<users, groups, comments, follows, nextPostId, nextCommentId, now>>

add_comment(u, username, post_id, text, t) ==
    /\ nextCommentId <= MaxComments
    /\ IF LoginRequired(u)
       THEN /\ Served(Request("add_comment", u, username, post_id, text, NoGroup, NoImage,
                              "redirect_login", FALSE))
            /\ UNCHANGED <<db, nextPostId, nextCommentId, now>>
       ELSE IF PostsFound(username, post_id) = {}
       THEN /\ Served(Request("add_comment", u, username, post_id, text, NoGroup, NoImage,
                              "not_found", FALSE))
            /\ UNCHANGED <<db, nextPostId, nextCommentId, now>>
       ELSE IF CommentFormValid(text)
       THEN /\ comments' = comments \cup
                   {NewComment(nextCommentId, p, u, text, t) :
                       p \in PostsFound(username, post_id)}
            /\ nextCommentId' = nextCommentId + 1
            /\ now' = t
            /\ Served(Request("add_comment", u, username, post_id, text, NoGroup, NoImage,
                              "redirect_post", FALSE))
            /\ UNCHANGED <<users, groups, posts, follows, nextPostId>>
       ELSE /\ Served(Request("add_comment", u, username, post_id, text, NoGroup, NoImage,
                              "redirect_post", FALSE))
            /\ UNCHANGED <<db, nextPostId, nextCommentId, now>>

profile_follow(u, username) ==
    /\ IF LoginRequired(u)
       THEN /\ Served(Request("profile_follow", u, username, 0, EmptyText, NoGroup, NoImage,
                              "redirect_login", FALSE))
            /\ UNCHANGED follows
       ELSE IF username \notin users
       THEN /\ Served(Request("profile_follow", u, username, 0, EmptyText, NoGroup, NoImage,
                              "not_found", FALSE))
            /\ UNCHANGED follows
       ELSE IF ~ShouldCreate(FollowExists(follows, u, username), u, username)
       THEN /\ Served(Request("profile_follow", u, username, 0, EmptyText, NoGroup, NoImage,
                              "redirect_profile", FALSE))
            /\ UNCHANGED follows
       ELSE IF UniqueViolation(follows, u, username)
       THEN /\ Served(Request("profile_follow", u, username, 0, EmptyText, NoGroup, NoImage,
                              "server_error", FALSE))
            /\ UNCHANGED follows
       ELSE /\ follows' = InsertFollow(follows, u, username)
            /\ Served(Request("profile_follow", u, username, 0, EmptyText, NoGroup, NoImage,
                              "redirect_profile", FALSE))
    /\ UNCHANGED <<users, groups, posts, comments, nextPostId, nextCommentId, now>>

profile_unfollow(u, username) ==
    /\ IF LoginRequired(u)
       THEN /\ Served(Request("profile_unfollow", u, username, 0, EmptyText, NoGroup, NoImage,
                              "redirect_login", FALSE))
            /\ UNCHANGED follows
       ELSE IF username \notin users
       THEN /\ Served(Request("profile_unfollow", u, username, 0, EmptyText, NoGroup, NoImage,
                              "not_found", FALSE))
            /\ UNCHANGED follows
       ELSE /\ follows' = DeleteFollows(follows, u, username)
            /\ Served(Request("profile_unfollow", u, username, 0, EmptyText, NoGroup, NoImage,
                              "redirect_profile", FALSE))
    /\ UNCHANGED <<users, groups, posts, comments, nextPostId, nextCommentId, now>>

\* User.delete(), with the cascades the models declare
DeleteUser(x) ==
    /\ x \in users
    /\ users' = users \ {x}
    /\ posts' = PostsAfterUserDelete(x)
    /\ comments' = CommentsAfterUserDelete(x)
    /\ follows' = FollowsAfterUserDelete(x)
    /\ Served(Request("delete_user", Anonymous, x, 0, EmptyText, NoGroup, NoImage,
                      "deleted", FALSE))
    /\ UNCHANGED <<groups, nextPostId, nextCommentId, now>>

\* Group.delete()
DeleteGroup(g) ==
    /\ g \in groups
    /\ groups' = groups \ {g}
    /\ posts' = PostsAfterGroupDelete(g)
    /\ Served(Request("delete_group", Anonymous, NoUser, 0, EmptyText, g, NoImage,
                      "deleted", FALSE))
    /\ UNCHANGED <<users, comments, follows, nextPostId, nextCommentId, now>>

\* ------------------------------------------------------------- profile_follow / profile_unfollow, query by query

\* A worker runs one request at a time, one query per step; the queries of
\* requests on different workers interleave.

Working(w, pc, op, u, name) ==
    reqs' = [reqs EXCEPT ![w] = [pc |-> pc, op |-> op, user |-> u, username |-> name]]

Respond(w, op, u, name, st) ==
    /\ reqs' = [reqs EXCEPT ![w] = Idle]
    /\ last' = Request(op, u, name, 0, EmptyText, NoGroup, NoImage, st, FALSE)
    /\ pre' = Snapshot

\* @login_required, then get_object_or_404(User, username=username)
FollowStart(w, u, name) ==
    /\ reqs[w].pc = "idle"
    /\ IF LoginRequired(u)
       THEN Respond(w, "profile_follow", u, name, "redirect_login")
       ELSE IF name \notin users
       THEN Respond(w, "profile_follow", u, name, "not_found")
       ELSE Working(w, "exists", "profile_follow", u, name) /\ UNCHANGED <<last, pre>>
    /\ UNCHANGED <<db, nextPostId, nextCommentId, now, cache, view>>

\* follower.exists() and author != request.user
FollowCheck(w) ==
    /\ reqs[w].pc = "exists"
    /\ IF ShouldCreate(FollowExists(follows, reqs[w].user, reqs[w].username),
                       reqs[w].user, reqs[w].username)
       THEN Working(w, "create", "profile_follow", reqs[w].user, reqs[w].username)
            /\ UNCHANGED <<last, pre>>
       ELSE Respond(w, "profile_follow", reqs[w].user, reqs[w].username, "redirect_profile")
    /\ UNCHANGED <<db, nextPostId, nextCommentId, now, cache, view>>

\* Follow.objects.create(user=request.user, author=author): IntegrityError on
\* a duplicate row, which the view does not catch
FollowInsert(w) ==
    /\ reqs[w].pc = "create"
    /\ IF UniqueViolation(follows, reqs[w].user, reqs[w].username)
       THEN /\ Respond(w, "profile_follow", reqs[w].user, reqs[w].username, "server_error")
            /\ UNCHANGED follows
       ELSE /\ Respond(w, "profile_follow", reqs[w].user, reqs[w].username, "redirect_profile")
            /\ follows' = InsertFollow(follows, reqs[w].user, reqs[w].username)
    /\ UNCHANGED <<users, groups, posts, comments, nextPostId, nextCommentId, now,
                   cache, view>>

UnfollowStart(w, u, name) ==
    /\ reqs[w].pc = "idle"
    /\ IF LoginRequired(u)
       THEN Respond(w, "profile_unfollow", u, name, "redirect_login")
       ELSE IF name \notin users
       THEN Respond(w, "profile_unfollow", u, name, "not_found")
       ELSE Working(w, "delete", "profile_unfollow", u, name) /\ UNCHANGED <<last, pre>>
    /\ UNCHANGED <<db, nextPostId, nextCommentId, now, cache, view>>

UnfollowDelete(w) ==
    /\ reqs[w].pc = "delete"
    /\ follows' = DeleteFollows(follows, reqs[w].user, reqs[w].username)
    /\ Respond(w, "profile_unfollow", reqs[w].user, reqs[w].username, "redirect_profile")
    /\ UNCHANGED <<users, groups, posts, comments, nextPostId, nextCommentId, now,
                   cache, view>>

NextFollow ==
    \E w \in Workers :
        \/ \E u \in RaceUsers \cup {Anonymous}, name \in RaceUsers \cup {NoUser} :
              FollowStart(w, u, name)
        \/ FollowCheck(w)
        \/ FollowInsert(w)
        \/ \E u \in RaceUsers \cup {Anonymous}, name \in RaceUsers \cup {NoUser} :
              UnfollowStart(w, u, name)
        \/ UnfollowDelete(w)

SpecFollow == Init /\ [][NextFollow]_vars

\* ------------------------------------------------------------- the system

Requesters == Users \cup {Anonymous}
PageQueries == {AbsentPage, TextPage} \cup {IntPage(n) : n \in -1..4}

\* every handler with every input; the clock reading of a write is the latest
\* one or a later one
Next ==
    \/ \E u \in Requesters, text \in Texts \cup {EmptyText}, g \in Groups \cup {NoGroup},
          a \in Users \cup {NoUser}, t \in {now, now + 1} : new_post(u, a, text, g, t)
    \/ \E u \in Requesters, name \in Users \cup {NoUser}, id \in 1..MaxPosts,
          text \in Texts \cup {EmptyText}, g \in Groups \cup {NoGroup}, img \in Images :
          post_edit(u, name, id, text, g, img)
    \/ \E u \in Requesters, name \in Users \cup {NoUser}, id \in 1..MaxPosts,
          text \in Texts \cup {EmptyText}, t \in {now, now + 1} :
          add_comment(u, name, id, text, t)
    \/ \E u \in Requesters, name \in Users \cup {NoUser} : profile_follow(u, name)
    \/ \E u \in Requesters, name \in Users \cup {NoUser} : profile_unfollow(u, name)
    \/ \E x \in Users : DeleteUser(x)
    \/ \E g \in Groups : DeleteGroup(g)
    \/ \E u \in Requesters, q \in PageQueries, t \in {now + 1, now + CacheTimeout} :
          index(u, q, t)
    \/ \E u \in Requesters, slug \in Groups, q \in PageQueries : group_posts(u, slug, q)
    \/ \E u \in Requesters, name \in Users \cup {NoUser}, q \in PageQueries :
          profile(u, name, q)
    \/ \E u \in Requesters, q \in PageQueries : follow_index(u, q)

Spec == Init /\ [][Next]_vars

\* The specifications below are Spec with the inputs narrowed to the handlers
\* and arguments one group of properties is about; every step of each is a
\* step of Next.

\* following and the feeds: posts, follow and unfollow by and on every user
NextSocial ==
    \/ \E u \in Users : new_post(u, NoUser, "a", NoGroup, now + 1)
    \/ \E u \in Users, name \in Users \cup {NoUser} : profile_follow(u, name)
    \/ \E u \in Users, name \in Users \cup {NoUser} : profile_unfollow(u, name)

SpecSocial == Init /\ [][NextSocial]_vars

\* deleting a user: posts and comments of two users, a ring of follow edges
\* through all three
FollowRing == {<<"u1", "u2">>, <<"u2", "u3">>, <<"u3", "u1">>}

NextUserDelete ==
    \/ \E u \in {"u1", "u2"} : new_post(u, NoUser, "a", NoGroup, now + 1)
    \/ \E u \in {"u1", "u2"}, p \in posts : add_comment(u, p.author, p.id, "a", now + 1)
    \/ \E e \in FollowRing : profile_follow(e[1], e[2])
    \/ \E x \in Users : DeleteUser(x)

SpecUserDelete == Init /\ [][NextUserDelete]_vars

\* posts and their groups
NextPosts ==
    \/ \E u \in {"u1", "u2"}, g \in Groups \cup {NoGroup} : new_post(u, NoUser, "a", g, now + 1)
    \/ \E u \in {"u1", "u2"}, id \in 1..MaxPosts, g \in Groups \cup {NoGroup} :
          post_edit(u, u, id, "b", g, "img")
    \/ \E g \in Groups : DeleteGroup(g)

SpecPosts == Init /\ [][NextPosts]_vars

\* commenting
NextComment ==
    \/ \E u \in {"u1", "u2"} : new_post(u, NoUser, "a", NoGroup, now + 1)
    \/ profile_follow("u3", "u1")
    \/ \E u \in {"u1", "u2"}, name \in {"u1", "u2"}, id \in 1..MaxPosts,
          text \in {"a", EmptyText} : add_comment(u, name, id, text, now + 1)

SpecComment == Init /\ [][NextComment]_vars

\* the five writing handlers, asked by a logged-in user and by an anonymous one
NextAnonymous ==
    \/ \E u \in {"u1", Anonymous} : new_post(u, NoUser, "a", NoGroup, now + 1)
    \/ \E u \in {"u1", Anonymous}, id \in 1..MaxPosts :
          post_edit(u, "u1", id, "b", "g1", NoImage)
    \/ \E u \in {"u2", Anonymous}, id \in 1..MaxPosts :
          add_comment(u, "u1", id, "a", now + 1)
    \/ \E u \in {"u2", Anonymous} : profile_follow(u, "u1")
    \/ \E u \in {"u2", Anonymous} : profile_unfollow(u, "u1")

SpecAnonymous == Init /\ [][NextAnonymous]_vars

\* the listings and their pages.  The tables are those left by n posts of u1
\* in group g1 and then m posts of u2 in no group, published at successive
\* clock readings up to 0, with u3 following u1.
FeedPost(i, n, m) ==
    [id |-> i, text |-> "a", pub_date |-> i - (n + m),
     author |-> IF i <= n THEN "u1" ELSE "u2",
     group |-> IF i <= n THEN "g1" ELSE NoGroup, image |-> NoImage]

InitFeed ==
    \E n \in 0..MaxFeed, m \in 0..1 :
        /\ users = Users
        /\ groups = Groups
        /\ posts = {FeedPost(i, n, m) : i \in 1..(n + m)}
        /\ comments = {}
        /\ follows = SetToBag({FollowRow("u3", "u1")})
        /\ nextPostId = n + m + 1
        /\ nextCommentId = 1
        /\ now = 0
        /\ last = NoRequest
        /\ pre = Snapshot
        /\ reqs = [w \in Workers |-> Idle]
        /\ cache = <<>>
        /\ view = NoView

NextFeed ==
    \/ \E q \in PageQueries : index("u1", q, now + CacheTimeout)
    \/ \E q \in PageQueries : group_posts("u1", "g1", q)
    \/ \E q \in PageQueries : profile("u3", "u1", q)
    \/ \E q \in PageQueries : follow_index("u3", q)

SpecFeed == InitFeed /\ [][NextFeed]_vars

\* the global feed and its cache: one client publishes posts and requests the
\* first page, shortly after the request before or once the timeout has passed
NextCache ==
    \/ new_post("u1", NoUser, "a", NoGroup, now + 1)
    \/ \E q \in {AbsentPage, IntPage(1)}, t \in {now + 1, now + CacheTimeout} :
          index("u1", q, t)

SpecCache == Init /\ [][NextCache]_vars

\* a post's life: created with an author value in the data, then edited by
\* its author and by the other user under either username and put into a
\* group, commented, its author followed and unfollowed, its group deleted
NextEdit ==
    \/ \E u \in {"u1", "u2"} : new_post(u, "u2", "a", NoGroup, now + 1)
    \/ \E u \in {"u1", "u2"}, name \in {"u1", "u2"}, id \in 1..MaxPosts,
          text \in {"b", EmptyText} : post_edit(u, name, id, text, "g1", "img")
    \/ add_comment("u1", "u2", 1, "a", now + 1)
    \/ profile_follow("u2", "u1")
    \/ profile_unfollow("u2", "u1")
    \/ DeleteGroup("g1")

SpecEdit == Init /\ [][NextEdit]_vars

\* a group's feed: posts of one author put into groups, moved between them
\* and listed by group, and groups deleted
NextGroup ==
    \/ \E g \in Groups \cup {NoGroup} : new_post("u1", NoUser, "a", g, now + 1)
    \/ \E id \in 1..MaxPosts, g \in {"g2", NoGroup} : post_edit("u1", "u1", id, "b", g, NoImage)
    \/ \E g \in Groups : DeleteGroup(g)
    \/ \E slug \in Groups : group_posts("u2", slug, AbsentPage)

SpecGroup == Init /\ [][NextGroup]_vars

\* users and groups deleted between the writing requests, which go on naming
\* them: two users post and follow each other, one edits, the other comments
\* on the first one's posts and unfollows
NextIntegrity ==
    \/ \E u \in {"u1", "u2"}, g \in {"g1", NoGroup} : new_post(u, NoUser, "a", g, now + 1)
    \/ \E id \in 1..MaxPosts : post_edit("u1", "u1", id, "b", "g1", NoImage)
    \/ \E id \in 1..MaxPosts : add_comment("u2", "u1", id, "a", now + 1)
    \/ \E e \in {<<"u1", "u2">>, <<"u2", "u1">>} : profile_follow(e[1], e[2])
    \/ profile_unfollow("u2", "u1")
    \/ \E x \in {"u1", "u2"} : DeleteUser(x)
    \/ DeleteGroup("g1")

SpecIntegrity == Init /\ [][NextIntegrity]_vars

\* ------------------------------------------------------------- properties

Authenticated == last.user \in pre.users
LastRow == FollowRow(last.user, last.username)
AllRows == {FollowRow(u, a) : u \in Users, a \in Users}
OtherTablesAsBefore ==
    /\ users = pre.users
    /\ groups = pre.groups
    /\ posts = pre.posts
    /\ comments = pre.comments

\* C1: whatever follow and unfollow requests were served, and however their
\* queries interleaved, no (user, author) pair has more than one Follow row;
\* and when the request served last is follow(u, a) with u # a on an existing
\* author, there is exactly one row u->a, also when one was there before.
C1_AtMostOneEdge ==
    /\ \A r \in AllRows : CopiesIn(r, follows) <= 1
    /\ (last.op = "profile_follow" /\ Authenticated /\ last.username \in pre.users
            /\ last.user # last.username)
        => CopiesIn(LastRow, follows) = 1

C1_Witness ==
    /\ last.op = "profile_follow"
    /\ last.status = "redirect_profile"
    /\ last.user # last.username
    /\ CopiesIn(LastRow, pre.follows) = 1
    /\ CopiesIn(LastRow, follows) = 1

\* C2: a follow request on an existing author other than the requester always
\* ends in the redirect to the profile, never in an error, and leaves exactly
\* one row, also when it lost the race for the insert.
C2_RaceLoserIsNoOp ==
    (last.op = "profile_follow" /\ Authenticated /\ last.username \in pre.users
        /\ last.user # last.username)
    => (last.status = "redirect_profile" /\ CopiesIn(LastRow, follows) = 1)

\* C3: no Follow row has user = author, and follow(u, u) answers with the
\* redirect to the profile and leaves the Follow table as it was.
C3_SelfFollowNoOp ==
    /\ \A u \in Users : CopiesIn(FollowRow(u, u), follows) = 0
    /\ (last.op = "profile_follow" /\ Authenticated /\ last.user = last.username)
        => (last.status = "redirect_profile" /\ follows = pre.follows)

C3_Witness ==
    /\ last.op = "profile_follow"
    /\ last.user = last.username
    /\ last.status = "redirect_profile"
    /\ follows # EmptyBag

\* C4: unfollow(u, a) by a logged-in user on an existing author answers with
\* the redirect to the profile; afterwards there is no row u->a, every other
\* row is there as often as before, the Follow table is unchanged when there
\* was no row u->a, and no other table changes.
C4_UnfollowIdempotent ==
    (last.op = "profile_unfollow" /\ Authenticated /\ last.username \in pre.users)
    => /\ last.status = "redirect_profile"
       /\ CopiesIn(LastRow, follows) = 0
       /\ \A r \in AllRows : r # LastRow => CopiesIn(r, follows) = CopiesIn(r, pre.follows)
       /\ (CopiesIn(LastRow, pre.follows) = 0 => follows = pre.follows)
       /\ OtherTablesAsBefore

C4_Witness ==
    /\ last.op = "profile_unfollow"
    /\ last.status = "redirect_profile"
    /\ last.user # last.username
    /\ CopiesIn(LastRow, pre.follows) = 0
    /\ CopiesIn(FollowRow(last.username, last.user), follows) = 1
    /\ \E v \in Users \ {last.user, last.username} :
          CopiesIn(FollowRow(v, last.username), follows) = 1

\* C5: for every user U, the following feed holds each post whose author U
\* follows exactly once, and no other post.
C5_FollowingFeedExact ==
    \A u \in users :
        /\ BagToSet(FollowIndexPosts(u)) \subseteq posts
        /\ \A p \in posts :
              CopiesIn(p, FollowIndexPosts(u)) =
                  IF CopiesIn(FollowRow(u, p.author), follows) > 0 THEN 1 ELSE 0

C5_Witness ==
    /\ last.op = "profile_unfollow"
    /\ last.status = "redirect_profile"
    /\ CopiesIn(LastRow, pre.follows) = 1
    /\ \E p \in posts, v \in users :
          /\ p.author = last.username
          /\ ~BagIn(p, FollowIndexPosts(last.user))
          /\ BagIn(p, FollowIndexPosts(v))
    /\ \E q \in posts : BagIn(q, FollowIndexPosts(last.user))

PostOf(c, P) == {p \in P : p.id = c.post}

\* C6: after User X is deleted there is no post by X, no comment by X and no
\* Follow row with X as user or as author; every post of another author, every
\* comment of another author on a post of another author and every Follow row
\* between other users is there as before; nothing is added and no group
\* changes.
C6_UserDeleteCascades ==
    last.op = "delete_user"
    => LET x == last.username IN
       /\ users = pre.users \ {x}
       /\ groups = pre.groups
       /\ posts \subseteq pre.posts
       /\ comments \subseteq pre.comments
       /\ \A p \in posts : p.author # x
       /\ \A c \in comments : c.author # x
       /\ \A p \in pre.posts : p.author # x => p \in posts
       /\ \A c \in pre.comments :
             (c.author # x /\ \A p \in PostOf(c, pre.posts) : p.author # x) => c \in comments
       /\ \A r \in AllRows :
             CopiesIn(r, follows) =
                 IF r.user = x \/ r.author = x THEN 0 ELSE CopiesIn(r, pre.follows)

C6_Witness ==
    /\ last.op = "delete_user"
    /\ \E p \in pre.posts : p.author = last.username
    /\ \E c \in pre.comments : c.author = last.username
    /\ \E r \in BagToSet(pre.follows) : r.user = last.username
    /\ \E r \in BagToSet(pre.follows) : r.author = last.username
    /\ posts # {}
    /\ comments # {}
    /\ follows # EmptyBag

\* C7: after Group G is deleted the posts are those of before, each with its
\* text, author, pub_date and image, its group empty if it was G and unchanged
\* otherwise; each is still in the global feed and in its author's profile
\* feed; no other table changes.
C7_GroupDeleteKeepsPosts ==
    last.op = "delete_group"
    => LET g == last.group IN
       /\ groups = pre.groups \ {g}
       /\ Cardinality(posts) = Cardinality(pre.posts)
       /\ \A p \in pre.posts :
             LET q == [p EXCEPT !.group = IF p.group = g THEN NoGroup ELSE p.group] IN
             q \in IndexPosts /\ q \in ProfilePosts(p.author)
       /\ users = pre.users /\ comments = pre.comments /\ follows = pre.follows

C7_Witness ==
    /\ last.op = "delete_group"
    /\ \E p \in pre.posts : p.group = last.group /\ p.text = "b"
    /\ \E p \in pre.posts : p.group \notin {last.group, NoGroup}

PostAddressed == \E p \in pre.posts : p.id = last.post_id /\ p.author = last.username

\* C8: add_comment by a logged-in user with non-empty text on an existing post
\* addressed by its author's username and its id adds one comment, of that
\* user on that post, keeps every other comment and changes no other table.
C8_CommentAdded ==
    (last.op = "add_comment" /\ Authenticated /\ last.text # EmptyText /\ PostAddressed)
    => /\ Cardinality(comments) = Cardinality(pre.comments) + 1
       /\ pre.comments \subseteq comments
       /\ \A c \in comments \ pre.comments :
             c.author = last.user /\ c.post = last.post_id /\ c.text = last.text
       /\ users = pre.users /\ groups = pre.groups /\ posts = pre.posts
       /\ follows = pre.follows

C8_Witness ==
    /\ last.op = "add_comment"
    /\ last.status = "redirect_post"
    /\ last.user # last.username
    /\ last.text # EmptyText
    /\ pre.comments # {}
    /\ Cardinality(posts) = 2
    /\ follows # EmptyBag
    /\ Cardinality(comments) = Cardinality(pre.comments) + 1

\* C9: add_comment by a logged-in user with empty text on an existing post
\* reports the validation error to the caller and leaves the comments as they
\* were.
C9_EmptyCommentRejected ==
    (last.op = "add_comment" /\ Authenticated /\ last.text = EmptyText /\ PostAddressed)
    => (last.errors /\ comments = pre.comments)

WritingHandlers ==
    {"new_post", "post_edit", "add_comment", "profile_follow", "profile_unfollow"}

\* C10: a writing request of a client that is not logged in is answered with
\* the redirect to the login page and leaves every table as it was.
C10_AnonymousChangesNothing ==
    (last.op \in WritingHandlers /\ last.user = Anonymous)
    => /\ last.status = "redirect_login"
       /\ Snapshot = pre

C10_Witness ==
    /\ last.op = "add_comment"
    /\ last.user = Anonymous
    /\ last.status = "redirect_login"
    /\ \E p \in posts : p.id = last.post_id /\ p.author = last.username /\ p.text = "b"
    /\ comments # {}
    /\ follows # EmptyBag

\* the posts a listing draws from, read from the tables
ViewedPosts ==
    IF view.feed = "index" THEN posts
    ELSE IF view.feed = "group_posts" THEN {p \in posts : p.group = view.arg}
    ELSE IF view.feed = "profile" THEN {p \in posts : p.author = view.arg}
    ELSE {p \in posts : \E r \in BagToSet(follows) : r.user = view.user /\ r.author = p.author}

LastPage(n) == IF n = 0 THEN 1 ELSE (n + PageSize - 1) \div PageSize
Least(a, b) == IF a <= b THEN a ELSE b
NewerIn(S, p) == Cardinality({x \in S : x.pub_date > p.pub_date})

\* the response is page number p of the n posts of S: it holds the posts at
\* positions 10(p-1)+1 .. min(10p, n) of S in newest-first order
IsPageOf(r, S, p) ==
    /\ r.status = "ok"
    /\ r.count = Cardinality(S)
    /\ r.num_pages = LastPage(Cardinality(S))
    /\ r.number = p
    /\ Len(r.object_list) = Least(PageSize * p, Cardinality(S)) - PageSize * (p - 1)
    /\ \A k \in 1..Len(r.object_list) :
          /\ r.object_list[k] \in S
          /\ NewerIn(S, r.object_list[k]) = PageSize * (p - 1) + k - 1

InRange(q, n) == q.kind = "int" /\ 1 <= q.n /\ q.n <= LastPage(n)

\* the page that answers a query on n posts
AnsweredPage(q, n) ==
    IF InRange(q, n) THEN q.n
    ELSE IF q.kind = "int" THEN LastPage(n)
    ELSE 1

\* C11 as stated: every listing answers with a page; an absent or non-numeric
\* page number, and a number below 1, give the first page; a number beyond the
\* last page gives the last page; no posts give an empty first page; a valid
\* number p gives positions 10(p-1)+1 .. min(10p, N) of the newest-first list.
C11_BelowOneIsFirstPage ==
    view.feed # "none" =>
        LET n == Cardinality(ViewedPosts) IN
        IsPageOf(view.response, ViewedPosts,
                 IF InRange(view.query, n) THEN view.query.n
                 ELSE IF view.query.kind = "int" /\ view.query.n > LastPage(n) THEN LastPage(n)
                 ELSE 1)

\* C11: every listing answers with a page; an absent or non-numeric page
\* number gives the first page; a number outside 1..last, below 1 as well as
\* beyond the last page, gives the last page; no posts give an empty first
\* page; a valid number p gives positions 10(p-1)+1 .. min(10p, N) of the
\* newest-first list.
C11_PageOfListing ==
    view.feed # "none" =>
        LET n == Cardinality(ViewedPosts) IN
        IsPageOf(view.response, ViewedPosts, AnsweredPage(view.query, n))

C11_Witness ==
    /\ view.feed = "follow_index"
    /\ view.query.kind = "int"
    /\ view.query.n < 1
    /\ Cardinality(ViewedPosts) = 2 * PageSize + 1
    /\ view.response.number = 3
    /\ Len(view.response.object_list) = 1

CreatedBefore ==
    view.after.op = "new_post" /\ view.after.status = "redirect_index"

AtFront(r, id) == r.object_list # <<>> /\ r.object_list[1].id = id

\* C12 as stated: the global feed lists all posts newest first, and the post
\* created by the request before a listing is at the front of that listing,
\* whatever listings were served before the post was created.
C12_NewPostAtFrontAtOnce ==
    last.op = "index" =>
        /\ IsPageOf(view.response, posts, AnsweredPage(view.query, Cardinality(posts)))
        /\ CreatedBefore => AtFront(view.response, view.after.post_id)

\* the response of the listing served last was computed and stored by that
\* request, not taken from the cache
ComputedNow == cache[view.query].stored = now

\* C12: a listing of the global feed that is not answered from the cache (no
\* listing of the same URL was computed less than 20 seconds before it) lists
\* all posts newest first, with the post created by the request before it at
\* the front; a listing answered from the cache repeats the response computed
\* less than 20 seconds before it.
C12_NewPostAtFrontOfFreshListing ==
    last.op = "index" =>
        IF ComputedNow
        THEN /\ IsPageOf(view.response, posts,
                         AnsweredPage(view.query, Cardinality(posts)))
             /\ CreatedBefore => AtFront(view.response, view.after.post_id)
        ELSE /\ now < cache[view.query].stored + CacheTimeout
             /\ view.response = cache[view.query].response

C12_Witness ==
    /\ last.op = "index"
    /\ CreatedBefore
    /\ ComputedNow
    /\ now > CacheTimeout
    /\ Len(view.response.object_list) = 2
    /\ AtFront(view.response, view.after.post_id)
    /\ \E k \in DOMAIN cache : cache[k].response.count < 2

\* C13: new_post by a logged-in user U with a text adds exactly one post, with
\* author U whatever author the data carry; and no request served afterwards
\* (post_edit, add_comment, follow, unfollow, a group's deletion) changes the
\* author or the pub_date of a post that is still there.
C13_AuthorAndDateFixed ==
    /\ (last.op = "new_post" /\ Authenticated /\ last.text # EmptyText
            /\ last.group \in pre.groups \cup {NoGroup})
       => /\ \E p \in posts :
                /\ p \notin pre.posts
                /\ posts = pre.posts \cup {p}
                /\ Cardinality(posts) = Cardinality(pre.posts) + 1
                /\ p.id = last.post_id
                /\ p.author = last.user
                /\ p.pub_date = now
                /\ \A q \in pre.posts : q.id # p.id
    /\ \A p \in posts, q \in pre.posts :
          p.id = q.id => p.author = q.author /\ p.pub_date = q.pub_date

C13_Witness ==
    /\ last.op = "new_post"
    /\ last.status = "redirect_index"
    /\ last.user = "u1"
    /\ last.username = "u2"
    /\ \E p \in posts : p.id = last.post_id /\ p.author = "u1"
    /\ \E p \in posts : p.id # last.post_id /\ p.text = "b" /\ p.author = "u2"
    /\ "g1" \notin groups
    /\ comments # {}

\* C14: post_edit asked by a logged-in user who is not the author of the post
\* with the id in the path, under any username in the path, leaves every post
\* as it was; asked by the author with a text and an existing or no group it
\* leaves every other post and every other table as they were, and that post's
\* id, author and pub_date too: text, group and image are all that may differ.
C14_OnlyAuthorEdits ==
    (last.op = "post_edit" /\ Authenticated) =>
        /\ ~(\E q \in pre.posts : q.id = last.post_id /\ q.author = last.user)
           => posts = pre.posts
        /\ \A q \in pre.posts :
              (q.id = last.post_id /\ q.author = last.user /\ last.text # EmptyText
                   /\ last.group \in pre.groups \cup {NoGroup})
              => /\ \E p \in posts :
                       /\ posts = (pre.posts \ {q}) \cup {p}
                       /\ p.id = q.id /\ p.author = q.author /\ p.pub_date = q.pub_date
                       /\ last.username = last.user
                          => /\ p.text = last.text
                             /\ p.group = last.group
                             /\ p.image = last.image
                       /\ last.username # last.user => p = q
                 /\ users = pre.users /\ groups = pre.groups
                 /\ comments = pre.comments /\ follows = pre.follows

C14_Witness ==
    /\ last.op = "post_edit"
    /\ last.user = "u1"
    /\ last.username = "u2"
    /\ last.text = "b"
    /\ \E p \in posts : p.id = last.post_id /\ p.author = "u2" /\ p.text = "a"
    /\ \E p \in posts : p.id # last.post_id /\ p.author = "u1" /\ p.text = "b"
                           /\ p.group = "g1" /\ p.image = "img"

InFeed(r, id) == \E k \in 1..Len(r.object_list) : r.object_list[k].id = id

\* C15: the listing of the group with slug s is answered with not found when
\* no group has slug s, and otherwise holds exactly the posts whose group is
\* that group, newest first; once post_edit has given a post another group the
\* listing of the group it left does not hold it, and once a group is deleted
\* its listing is not found and its posts are in no group's listing.
C15_GroupFeedExact ==
    /\ last.op = "group_posts" =>
          IF view.arg \notin groups
          THEN view.response.status = "not_found"
          ELSE LET S == {p \in posts : p.group = view.arg}
               IN IsPageOf(view.response, S, AnsweredPage(view.query, Cardinality(S)))
    /\ last.op = "post_edit" =>
          \A q \in pre.posts, p \in posts :
              (p.id = q.id /\ p.group # q.group /\ q.group \in groups)
              => ~InFeed(GroupPostsResponse(q.group, AbsentPage), p.id)
    /\ last.op = "delete_group" =>
          /\ GroupPostsResponse(last.group, AbsentPage).status = "not_found"
          /\ \A q \in pre.posts, slug \in groups :
                q.group = last.group => ~InFeed(GroupPostsResponse(slug, AbsentPage), q.id)

C15_Witness ==
    /\ last.op = "group_posts"
    /\ view.arg = "g1"
    /\ view.response.status = "ok"
    /\ Len(view.response.object_list) = 1
    /\ \E p \in posts : p.group = "g2" /\ p.text = "b" /\ ~InFeed(view.response, p.id)
    /\ \E p \in posts : p.group = "g1" /\ InFeed(view.response, p.id)

\* C16: whatever users and groups were deleted and whatever new_post,
\* post_edit, add_comment, follow and unfollow requests were served, every
\* post's author is a user and its group none or a group, every comment's
\* author is a user and its post a post, both ends of every Follow row are
\* users; and deleting a user leaves no comment on any of that user's posts,
\* whoever wrote it.
C16_ReferentialIntegrity ==
    /\ \A p \in posts : p.author \in users /\ p.group \in groups \cup {NoGroup}
    /\ \A c \in comments : c.author \in users /\ \E p \in posts : p.id = c.post
    /\ \A r \in BagToSet(follows) : r.user \in users /\ r.author \in users
    /\ last.op = "delete_user" =>
          \A c \in pre.comments :
              (\E q \in pre.posts : q.id = c.post /\ q.author = last.username)
              => c \notin comments

C16_Witness ==
    /\ last.op = "delete_user"
    /\ last.username = "u1"
    /\ "u2" \in users
    /\ \E c \in pre.comments :
          /\ c.author = "u2"
          /\ c \notin comments
          /\ \E q \in pre.posts : q.id = c.post /\ q.author = "u1" /\ q \notin posts
    /\ \E r \in BagToSet(pre.follows) : r.author = "u1"
    /\ groups # Groups

=============================================================================
